---- MODULE Spec2Model ----
(***************************************************************************)
(* Net-API: the device credential vault (security/encryption.py) and the   *)
(* vendor-plugin dispatch path (endpoints/devices.py, endpoints/           *)
(* switching.py, plugins/plugin.py) over the device table (sql/sql.py).    *)
(*                                                                         *)
(* Modelling conventions                                                   *)
(*  - Python values are records [t, c]: t is the Python type ("str",       *)
(*    "bytes", "None", "bool"), c the content.  Contents are records of    *)
(*    strings [k, m, s, iv, d]: k = "raw" (plain text d), "b64" (url-safe  *)
(*    base64 of the raw bytes d) or "fernet" (a Fernet token of plaintext  *)
(*    d under the key derived from passphrase m and salt s, with IV iv).   *)
(*  - PBKDF2-HMAC-SHA256 and Fernet are idealised: the derived key is the  *)
(*    pair (passphrase, salt), and a token authenticates only under the    *)
(*    key that made it.  os.urandom returns a value not drawn before.      *)
(*  - A call that can raise returns [ok, v, exc]: ok = FALSE carries the   *)
(*    exception class in exc.                                              *)
(*  - The dispatch code indexes the result of SqlServer.read as            *)
(*    read(...)[0][column]; the model reads it the way these callers do:   *)
(*    [0] is the device's row, its columns in the order of                 *)
(*    sql/create-devices.py; a missing row or a failed read is not         *)
(*    subscriptable.                                                       *)
(***************************************************************************)
EXTENDS Integers, Sequences, FiniteSets, TLC

\* ------------------------------------------------------------------ bounds
\* the number of CryptoSecret.encrypt calls of a codec run
MaxVault == 2

\* the number of POST /sites requests that get past the name check
MaxPosts == 3

\* ------------------------------------------------------- Python values
NoContent == [k |-> "none", m |-> "", s |-> "", iv |-> "", d |-> ""]

Raw(x) == [k |-> "raw", m |-> "", s |-> "", iv |-> "", d |-> x]

B64(x) == [k |-> "b64", m |-> "", s |-> "", iv |-> "", d |-> x]

FernetToken(m, s, iv, x) == [k |-> "fernet", m |-> m, s |-> s, iv |-> iv, d |-> x]

PyNone == [t |-> "None", c |-> NoContent]

PyFalse == [t |-> "bool", c |-> NoContent]

Str(c) == [t |-> "str", c |-> c]

Bytes(c) == [t |-> "bytes", c |-> c]

Ok(v) == [ok |-> TRUE, v |-> v, exc |-> ""]

Raise(e) == [ok |-> FALSE, v |-> PyNone, exc |-> e]

\* str.encode(): only str has it
encode(v) == IF v.t = "str" THEN Ok(Bytes(v.c)) ELSE Raise("AttributeError")

\* bytes.decode('utf-8'): only bytes has it
decode(v) == IF v.t = "bytes" THEN Ok(Str(v.c)) ELSE Raise("AttributeError")

\* base64.urlsafe_b64decode(bytes): text that is not padded base64 raises
urlsafe_b64decode(v) ==
    IF v.t \notin {"bytes", "str"} THEN Raise("TypeError")
    ELSE IF v.c.k = "b64" THEN Ok(Bytes(Raw(v.c.d)))
    ELSE Raise("binascii.Error")

\* ------------------------------------------------------------ the codec
\* os.urandom(16): the n-th draw of the process
urandom(n) == Bytes(Raw(ToString(n)))

\* build_key deriving the key from the passphrase alone: the salt is unused
build_key_unsalted(master, salt) ==
    IF salt.t # "bytes" THEN Raise("TypeError")
    ELSE IF master.t # "str" THEN Raise("AttributeError")
    ELSE Ok([m |-> master.c.d, s |-> ""])

\* PBKDF2HMAC(SHA256, 32, salt, 100000).derive(master.encode()) and Fernet(key)
build_key(master, salt) ==
    IF salt.t # "bytes" THEN Raise("TypeError")
    ELSE IF master.t # "str" THEN Raise("AttributeError")
    ELSE Ok([m |-> master.c.d, s |-> salt.c.d])

\* Fernet.encrypt(data): a token under the key with a fresh IV
fernet_encrypt(key, iv, data) ==
    IF data.t # "bytes" THEN Raise("TypeError")
    ELSE Ok(Bytes(FernetToken(key.m, key.s, iv.c.d, data.c.d)))

\* Fernet.decrypt(token): the HMAC check passes only under the token's key
fernet_decrypt(key, token) ==
    IF token.t \notin {"bytes", "str"} THEN Raise("TypeError")
    ELSE IF token.c.k = "fernet" /\ token.c.m = key.m /\ token.c.s = key.s
         THEN Ok(Bytes(Raw(token.c.d)))
    ELSE Raise("InvalidToken")

\* encrypt with one salt for every call instead of a draw per call
encrypt_staleSalt(master, password, n) ==
    LET salt == urandom(0)
        fernet == build_key(master, salt)
        data == encode(password)
    IN  IF ~fernet.ok THEN Raise(fernet.exc)
        ELSE IF ~data.ok THEN Raise(data.exc)
        ELSE LET msg == fernet_encrypt(fernet.v, urandom(n + 1), data.v)
             IN  IF ~msg.ok THEN Raise(msg.exc)
                 ELSE [ok |-> TRUE, v |-> msg.v, salt |-> salt, exc |-> ""]

\* CryptoSecret.encrypt(password): draws n (salt) and n+1 (Fernet IV)
encrypt(master, password, n) ==
    LET salt == urandom(n)
        fernet == build_key(master, salt)
        data == encode(password)
    IN  IF ~fernet.ok THEN Raise(fernet.exc)
        ELSE IF ~data.ok THEN Raise(data.exc)
        ELSE LET msg == fernet_encrypt(fernet.v, urandom(n + 1), data.v)
             IN  IF ~msg.ok THEN Raise(msg.exc)
                 ELSE [ok |-> TRUE, v |-> msg.v, salt |-> salt, exc |-> ""]

\* CryptoSecret.decrypt(secret, salt): the password, False, or an exception
\* of build_key (which is outside the try block)
decrypt(master, secret, salt) ==
    LET fernet == build_key(master, salt)
    IN  IF ~fernet.ok THEN Raise(fernet.exc)
        ELSE LET tok == encode(secret)
             IN  IF ~tok.ok THEN Ok(PyFalse)
                 ELSE LET pt == fernet_decrypt(fernet.v, tok.v)
                      IN  IF ~pt.ok THEN Ok(PyFalse)
                          ELSE LET pw == decode(pt.v)
                               IN  IF pw.ok THEN Ok(pw.v) ELSE Ok(PyFalse)

\* ------------------------------------------------------ the device table
DeviceIds == {"D1", "D2"}

HostOf == [d \in DeviceIds |-> IF d = "D1" THEN "10.1.0.1" ELSE "10.1.0.2"]

\* the secret "Sw1tch!" encrypted under passphrase "M" with salt "S"
GoodSecret == Str(FernetToken("M", "S", "iv0", "Sw1tch!"))

\* a row of the devices table (sql/create-devices.py): name, vendor,
\* auth_type, username, secret, salt, token; NULL columns are None
DeviceRow(name, vendor, auth_type, username, secret, salt, token) ==
    [name |-> name, vendor |-> vendor, auth_type |-> auth_type,
     username |-> username, secret |-> secret, salt |-> salt, token |-> token]

NoRow == DeviceRow("", "", "", PyNone, PyNone, PyNone, PyNone)

SecretRow(name, vendor, secret, salt) ==
    DeviceRow(name, vendor, "secret", Str(Raw("admin")), secret, salt, PyNone)

TokenRow(name, vendor) ==
    DeviceRow(name, vendor, "token", PyNone, PyNone, PyNone, Str(Raw("abc123")))

RowsFor(d) ==
    { SecretRow(HostOf[d], "juniper", GoodSecret, Str(B64("S"))),
      SecretRow(HostOf[d], "juniper", Str(Raw("corrupted")), Str(B64("S"))),
      SecretRow(HostOf[d], "juniper", GoodSecret, Str(B64("S2"))),
      SecretRow(HostOf[d], "juniper", GoodSecret, PyNone),
      SecretRow(HostOf[d], "hp", Str(Raw("corrupted")), Str(B64("S"))),
      TokenRow(HostOf[d], "cisco"),
      TokenRow(HostOf[d], "hp"),
      TokenRow(HostOf[d], "Juniper"),
      DeviceRow(HostOf[d], "juniper", "key", PyNone, PyNone, PyNone, PyNone) }

\* the values of the api_master_pw environment variable
Masters == {Str(Raw("M")), Str(Raw("M2")), PyNone}

\* ----------------------------------------------------------- the plugins
\* config.PLUGINS['loaded']: one Plugin per configured entry, in order
\* held: the values kept in attributes of the Plugin object other than
\* vendor, host, port, description and server
LoadedPlugins ==
    << [vendor |-> "juniper", endpoint |-> "10.0.0.5:9000", held |-> << >>],
       [vendor |-> "cisco", endpoint |-> "10.0.0.9:9000", held |-> << >>],
       [vendor |-> "juniper", endpoint |-> "10.0.0.6:9000", held |-> << >>] >>

\* the capability methods of Plugin and the remote procedure each one calls
Capabilities ==
    {"device", "hardware", "interfaces", "lldp", "mac", "ospf", "routing", "vlans"}

RpcMethod(cap) == IF cap = "device" THEN "device_info" ELSE cap

\* what the XML-RPC proxy call can do: return a payload or raise
Payloads == {"payloadA", "payloadB"}

RefusedWin == "[WinError 10061] No connection could be made because the target machine actively refused it"

RefusedPosix == "[Errno 111] Connection refused"

NoRoute == "[Errno 113] No route to host"

VendorFault == "<Fault 1: 'vendor error'>"

\* http.client.ResponseNotReady, raised on a connection that was closed
NotReady == "Idle"

RpcErrors ==
    {RefusedWin, RefusedPosix, NoRoute, "timed out", VendorFault}

\* the messages with which the transport reports that the plugin endpoint
\* refused the connection or cannot be reached
Unreachable(msg) == msg \in {RefusedWin, RefusedPosix, NoRoute}

\* a Fault is the answer of the remote procedure; every other exception is
\* raised by the transport, which closes its connection before it re-raises
IsFault(msg) == msg = VendorFault

\* 'target machine actively refused it' in str(e)
ActivelyRefused(msg) == msg = RefusedWin

\* endpoints/http_codes.py
HTTP_OK == 200

HTTP_CREATED == 201

HTTP_BADREQUEST == 400

HTTP_CONFLICT == 409

\* self.code = http_codes.HTTP_OK closing the get handler by the outcome of
\* the dispatch
HandlerCode_byOutcome(kind) ==
    IF kind = "payload" THEN HTTP_OK ELSE IF kind = "none" THEN 404 ELSE 502

\* self.code = http_codes.HTTP_OK, the last statement of every get handler;
\* kind is the outcome of the dispatch: "none" (no plugin matched),
\* "payload" or "error"
HandlerCode(kind) == HTTP_OK

\* the Authorization header of a request: absent, the configured user with
\* its password, credentials that LDAP rejects, or a decoded value that does
\* not split in two at ':'
Headers == {"absent", "good", "bad", "malformed"}

\* basic_auth.api_auth(authorization)
api_auth(h) ==
    IF h = "good" THEN Ok(PyNone)
    ELSE IF h = "bad" THEN Ok(PyFalse)
    ELSE Raise("ValueError")

\* -------------------------------------------------------------- requests
Requests == {"q1", "q2"}

NoCall == [plugin |-> 0, method |-> "", args |-> << >>]

NoResponse == [t |-> "None", status |-> "", error |-> "", v |-> ""]

\* json.dumps of the error dictionary of a capability method
JsonError(status, error) == [t |-> "json", status |-> status, error |-> error, v |-> ""]

Payload(p) == [t |-> "payload", status |-> "", error |-> "", v |-> p]

\* the requests to /sites and /sites/:site_id being served
AdminRequests == {"a1", "a2"}

\* body: the names of the fields of the JSON body
IdleAdmin ==
    [pc |-> "idle", op |-> "", name |-> "", id |-> "", body |-> {},
     code |-> 0, error |-> "", exc |-> ""]

IdleRequest ==
    [pc |-> "idle", dev |-> "", cap |-> "", vendor |-> "", response |-> NoResponse,
     code |-> 0, exc |-> "", call |-> NoCall, ncalls |-> 0, codec |-> << >>,
     auth |-> "", remote |-> [kind |-> "none", v |-> ""],
     hdr |-> "", authchecks |-> 0, entered |-> "no", error |-> "", logged |-> << >>]

VARIABLES
    store,      \* the devices table: device id -> row, or NoRow
    master,     \* the api_master_pw environment variable
    plugins,    \* config.PLUGINS['loaded']
    req,        \* the requests being served: request -> its endpoint object
    entropy,    \* how many os.urandom draws were made
    vault,      \* the results of the CryptoSecret.encrypt calls, in order
    opened,     \* the last CryptoSecret.decrypt call and its result
    inflight,   \* plugin -> the requests whose remote call is on the
                \* connection that the plugin's ServerProxy keeps open
    sites,      \* the sites table: a set of rows (id, name)
    adm         \* the site and device management requests being served

vars == <<store, master, plugins, req, entropy, vault, opened, inflight, sites, adm>>

\* ------------------------------------------------------ SqlServer.read
\* read(field='id', value=d): the row, None when no row matches, False when
\* the query failed
read(d, outcome) ==
    IF outcome = "error" THEN [kind |-> "False", row |-> NoRow]
    ELSE IF store[d] = NoRow THEN [kind |-> "None", row |-> NoRow]
    ELSE [kind |-> "row", row |-> store[d]]

ReadOutcomes == {"ok", "error"}

\* read(...)[0]: None and False are not subscriptable
Subscript0(out) ==
    IF out.kind = "row" THEN [ok |-> TRUE, row |-> out.row, exc |-> ""]
    ELSE [ok |-> FALSE, row |-> NoRow, exc |-> "TypeError"]

\* ------------------------------------------------ Plugin.authenticate
AuthResult(host, auth_type, user, password, token, codec) ==
    [ok |-> TRUE, exc |-> "", host |-> host, auth_type |-> auth_type, user |-> user,
     password |-> password, token |-> token, codec |-> codec]

AuthRaise(e, codec) ==
    [ok |-> FALSE, exc |-> e, host |-> "", auth_type |-> "", user |-> PyNone,
     password |-> PyNone, token |-> PyNone, codec |-> codec]

\* authenticate decrypting before it looks at the auth type
authenticate_decryptFirst(d, outcome) ==
    LET output == Subscript0(read(d, outcome))
        row == output.row
        bsalt == encode(row.salt)
        salt == IF bsalt.ok THEN urlsafe_b64decode(bsalt.v) ELSE Ok(Bytes(Raw("")))
        password == decrypt(master, row.secret, salt.v)
    IN  IF ~output.ok THEN AuthRaise(output.exc, << >>)
        ELSE IF ~password.ok THEN AuthRaise(password.exc, <<"decrypt", "build_key">>)
        ELSE IF row.auth_type = "secret" THEN
            AuthResult(row.name, row.auth_type, row.username, password.v,
                       PyNone, <<"decrypt", "build_key">>)
        ELSE IF row.auth_type = "token" THEN
            AuthResult(row.name, row.auth_type, PyNone, PyNone, row.token,
                       <<"decrypt", "build_key">>)
        ELSE AuthRaise("TypeError", <<"decrypt", "build_key">>)

\* codec lists the codec calls made: CryptoSecret.decrypt and build_key
authenticate(d, outcome) ==
    LET output == Subscript0(read(d, outcome))
        row == output.row
    IN  IF ~output.ok THEN AuthRaise(output.exc, << >>)
        ELSE IF row.auth_type = "secret" THEN
            LET bsalt == encode(row.salt)
                salt == IF bsalt.ok THEN urlsafe_b64decode(bsalt.v) ELSE bsalt
                password == decrypt(master, row.secret, salt.v)
            IN  IF ~salt.ok THEN AuthRaise(salt.exc, << >>)
                ELSE IF ~password.ok THEN AuthRaise(password.exc, <<"decrypt", "build_key">>)
                ELSE AuthResult(row.name, row.auth_type, row.username, password.v,
                                PyNone, <<"decrypt", "build_key">>)
        ELSE IF row.auth_type = "token" THEN
            AuthResult(row.name, row.auth_type, PyNone, PyNone, row.token, << >>)
        \* neither branch: the method returns None, which the caller unpacks
        ELSE AuthRaise("TypeError", << >>)

\* ------------------------------------------------------ the dispatch path
\* the plugin loop without its break: the last plugin of the vendor wins
FindPlugin_noBreak(vendor) ==
    IF \E i \in 1..Len(plugins) : plugins[i].vendor = vendor
    THEN CHOOSE i \in 1..Len(plugins) :
            /\ plugins[i].vendor = vendor
            /\ \A j \in (i + 1)..Len(plugins) : plugins[j].vendor # vendor
    ELSE 0

\* for plugin in config.PLUGINS['loaded']: if self.device_vendor == plugin.vendor
\* the index of the first plugin of that vendor, 0 when there is none
FindPlugin(vendor) ==
    IF \E i \in 1..Len(plugins) : plugins[i].vendor = vendor
    THEN CHOOSE i \in 1..Len(plugins) :
            /\ plugins[i].vendor = vendor
            /\ \A j \in 1..(i - 1) : plugins[j].vendor # vendor
    ELSE 0

\* the arguments of self.server.<method>(...) for the auth type
CallArgs(auth) ==
    IF auth.auth_type = "secret"
    THEN <<Str(Raw(auth.host)), auth.user, auth.password>>
    ELSE <<Str(Raw(auth.host)), auth.token>>

\* the except branch answering 'Connection Refused' to every failure
ClassifyError_allRefused(vendor, msg) == JsonError("error", "Connection Refused")

\* the except branch of a capability method: the dictionary it dumps
ClassifyError(vendor, msg) ==
    IF ActivelyRefused(msg) THEN JsonError("error", "Connection Refused")
    ELSE JsonError(vendor \o " plugin error", msg)

\* the remote call of request r starts on the connection of plugin p
Send(r, p) == [inflight EXCEPT ![p] = @ \cup {r}]

\* the remote call of request r on plugin p ended with its own answer
Receive(r, p) == [inflight EXCEPT ![p] = @ \ {r}]

\* the transport of plugin p closed its connection
Close(p) == [inflight EXCEPT ![p] = {}]

\* the constructor clearing the token column of the row it read
Construct_consumesToken(r, d, cap, outcome) ==
    /\ req[r].pc = "idle"
    /\ LET output == Subscript0(read(d, outcome))
       IN  /\ req' = [req EXCEPT ![r] =
                IF output.ok
                THEN [IdleRequest EXCEPT !.pc = "constructed", !.dev = d, !.cap = cap,
                                         !.vendor = output.row.vendor]
                ELSE [IdleRequest EXCEPT !.pc = "raised", !.dev = d, !.cap = cap,
                                         !.exc = output.exc]]
           /\ store' = IF output.ok THEN [store EXCEPT ![d].token = PyNone] ELSE store
    /\ UNCHANGED <<master, plugins, entropy, vault, opened, inflight, sites, adm>>

\* Devices.__init__ (and Vlans, Mac, Lldp): store the id, read the vendor
Construct(r, d, cap, outcome) ==
    /\ req[r].pc = "idle"
    /\ LET output == Subscript0(read(d, outcome))
       IN  req' = [req EXCEPT ![r] =
                IF output.ok
                THEN [IdleRequest EXCEPT !.pc = "constructed", !.dev = d, !.cap = cap,
                                         !.vendor = output.row.vendor]
                ELSE [IdleRequest EXCEPT !.pc = "raised", !.dev = d, !.cap = cap,
                                         !.exc = output.exc]]
    /\ UNCHANGED <<store, master, plugins, entropy, vault, opened, inflight, sites, adm>>

\* ApiCall.__enter__: check_auth_header, then check_auth when the header is
\* there. Both failure branches set error and response and then evaluate
\* http_codes.HTTP_UNAUTHORIZED, a name http_codes does not define
Enter(r, h) ==
    /\ req[r].pc = "constructed"
    /\ LET checked == IF h = "absent" THEN Ok(PyFalse) ELSE api_auth(h)
       IN  req' = [req EXCEPT ![r] =
                IF checked = Ok(PyNone)
                THEN [@ EXCEPT !.pc = "entered", !.hdr = h, !.authchecks = 1,
                               !.entered = "yes"]
                ELSE IF checked = Ok(PyFalse)
                THEN [@ EXCEPT !.pc = "raised", !.exc = "AttributeError", !.hdr = h,
                               !.authchecks = IF h = "absent" THEN 0 ELSE 1,
                               !.error = "Failed Authentication",
                               !.response = JsonError("error", "Failed Authentication")]
                ELSE [@ EXCEPT !.pc = "raised", !.exc = checked.exc, !.hdr = h,
                               !.authchecks = 1]]
    /\ UNCHANGED <<store, master, plugins, entropy, vault, opened, inflight, sites, adm>>

\* ApiCall.__exit__: log the call with self.code and self.error; the insert
\* of the log row succeeds or fails (add returns False, which log ignores).
\* __exit__ returns a non-empty tuple, so an exception of the handler is
\* dropped here
Exit(r, outcome) ==
    /\ req[r].pc \in {"done", "raised"}
    /\ req[r].entered = "yes"
    /\ req' = [req EXCEPT ![r] =
            [@ EXCEPT !.entered = "exited",
                      !.logged = Append(@, [code |-> req[r].code, error |-> req[r].error,
                                            written |-> outcome = "ok"])]]
    /\ UNCHANGED <<store, master, plugins, entropy, vault, opened, inflight, sites, adm>>

\* the capability method keeping the credentials it resolved on the plugin
\* and sending the kept ones from then on
Get_keepsCredentials(r, outcome) ==
    /\ req[r].pc = "entered"
    /\ LET p == FindPlugin(req[r].vendor)
           auth == authenticate(req[r].dev, outcome)
       IN  /\ req' = [req EXCEPT ![r] =
                IF req[r].cap = "device"
                THEN [@ EXCEPT !.pc = "raised", !.exc = "AttributeError"]
                ELSE IF p = 0
                THEN [@ EXCEPT !.pc = "done", !.code = HandlerCode("none")]
                ELSE IF ~auth.ok
                THEN [@ EXCEPT !.pc = "raised", !.exc = auth.exc, !.codec = auth.codec]
                ELSE [@ EXCEPT !.pc = "calling", !.codec = auth.codec,
                               !.auth = auth.auth_type,
                               !.ncalls = @ + 1,
                               !.call = [plugin |-> p, method |-> RpcMethod(req[r].cap),
                                         args |-> IF plugins[p].held # << >>
                                                  THEN plugins[p].held
                                                  ELSE CallArgs(auth)]]]
           /\ plugins' = IF req'[r].pc = "calling"
                         THEN [plugins EXCEPT ![p].held = req'[r].call.args]
                         ELSE plugins
    /\ inflight' = IF req'[r].pc = "calling"
                   THEN Send(r, req'[r].call.plugin) ELSE inflight
    /\ UNCHANGED <<store, master, entropy, vault, opened, sites, adm>>

\* the get handler of the endpoint: find the plugin and enter its capability
\* method, which authenticates and sends the remote call. Devices.get first
\* tests self.vendor, an attribute that no Devices object has
Get(r, outcome) ==
    /\ req[r].pc = "entered"
    /\ LET p == FindPlugin(req[r].vendor)
           auth == authenticate(req[r].dev, outcome)
       IN  req' = [req EXCEPT ![r] =
                IF req[r].cap = "device"
                THEN [@ EXCEPT !.pc = "raised", !.exc = "AttributeError"]
                ELSE IF p = 0
                THEN [@ EXCEPT !.pc = "done", !.code = HandlerCode("none")]
                ELSE IF ~auth.ok
                THEN [@ EXCEPT !.pc = "raised", !.exc = auth.exc, !.codec = auth.codec]
                ELSE [@ EXCEPT !.pc = "calling", !.codec = auth.codec,
                               !.auth = auth.auth_type,
                               !.ncalls = @ + 1,
                               !.call = [plugin |-> p, method |-> RpcMethod(req[r].cap),
                                         args |-> CallArgs(auth)]]]
    /\ inflight' = IF req'[r].pc = "calling"
                   THEN Send(r, req'[r].call.plugin) ELSE inflight
    /\ UNCHANGED <<store, master, plugins, entropy, vault, opened, sites, adm>>

\* the success path serialising the payload as the except branch does
RemoteReturn_dumped(r, p) ==
    /\ req[r].pc = "calling"
    /\ req' = [req EXCEPT ![r] = [@ EXCEPT !.pc = "done", !.code = HandlerCode("payload"),
                                          !.remote = [kind |-> "payload", v |-> p],
                                          !.response = JsonError("", p)]]
    /\ inflight' = Receive(r, req[r].call.plugin)
    /\ UNCHANGED <<store, master, plugins, entropy, vault, opened, sites, adm>>

\* the remote procedure returned a payload
RemoteReturn(r, p) ==
    /\ req[r].pc = "calling"
    /\ req' = [req EXCEPT ![r] = [@ EXCEPT !.pc = "done", !.code = HandlerCode("payload"),
                                          !.remote = [kind |-> "payload", v |-> p],
                                          !.response = Payload(p)]]
    /\ inflight' = Receive(r, req[r].call.plugin)
    /\ UNCHANGED <<store, master, plugins, entropy, vault, opened, sites, adm>>

\* the except branch calling the plugin once more before it gives up
RemoteRaise_retry(r, msg) ==
    /\ req[r].pc = "calling"
    /\ req' = [req EXCEPT ![r] =
            IF req[r].ncalls < 2
            THEN [@ EXCEPT !.ncalls = @ + 1]
            ELSE [@ EXCEPT !.pc = "done", !.code = HandlerCode("error"),
                           !.remote = [kind |-> "error", v |-> msg],
                           !.response = ClassifyError(plugins[req[r].call.plugin].vendor, msg)]]
    /\ inflight' = IF req[r].ncalls < 2 THEN inflight
                   ELSE IF IsFault(msg) THEN Receive(r, req[r].call.plugin)
                   ELSE Close(req[r].call.plugin)
    /\ UNCHANGED <<store, master, plugins, entropy, vault, opened, sites, adm>>

\* the remote procedure raised: except Exception as e
RemoteRaise(r, msg) ==
    /\ req[r].pc = "calling"
    /\ req' = [req EXCEPT ![r] =
            [@ EXCEPT !.pc = "done", !.code = HandlerCode("error"),
                      !.remote = [kind |-> "error", v |-> msg],
                      !.response = ClassifyError(plugins[req[r].call.plugin].vendor, msg)]]
    /\ inflight' = IF IsFault(msg) THEN Receive(r, req[r].call.plugin)
                   ELSE Close(req[r].call.plugin)
    /\ UNCHANGED <<store, master, plugins, entropy, vault, opened, sites, adm>>

\* the remote call of r finds its connection closed by the transport, which
\* another request's failed call made close it: the call raises
ConnectionClosed(r) ==
    /\ req[r].pc = "calling"
    /\ r \notin inflight[req[r].call.plugin]
    /\ req' = [req EXCEPT ![r] =
            [@ EXCEPT !.pc = "done", !.code = HandlerCode("error"),
                      !.remote = [kind |-> "closed", v |-> NotReady],
                      !.response = ClassifyError(plugins[req[r].call.plugin].vendor, NotReady)]]
    /\ UNCHANGED <<store, master, plugins, entropy, vault, opened, inflight, sites, adm>>

\* answering a request moves the first plugin of the list to its end
Finish_rotates(r) ==
    /\ req[r].pc \in {"done", "raised"}
    /\ req[r].entered # "yes"
    /\ req' = [req EXCEPT ![r] = IdleRequest]
    /\ plugins' = Append(Tail(plugins), Head(plugins))
    /\ UNCHANGED <<store, master, entropy, vault, opened, inflight, sites, adm>>

\* the view function returns (or Flask answers 500 for the exception): the
\* request is answered and its endpoint object is dropped
Finish(r) ==
    /\ req[r].pc \in {"done", "raised"}
    /\ req[r].entered # "yes"
    /\ req' = [req EXCEPT ![r] = IdleRequest]
    /\ UNCHANGED <<store, master, plugins, entropy, vault, opened, inflight, sites, adm>>

NoOpened == [secret |-> PyNone, salt |-> PyNone, master |-> PyNone, res |-> Raise("")]

Init ==
    /\ store \in [DeviceIds -> UNION {RowsFor(d) : d \in DeviceIds} \cup {NoRow}]
    /\ \A d \in DeviceIds : store[d] \in RowsFor(d) \cup {NoRow}
    /\ master \in Masters
    /\ plugins = LoadedPlugins
    /\ req = [r \in Requests |-> IdleRequest]
    /\ entropy = 0
    /\ vault = << >>
    /\ opened = NoOpened
    /\ inflight = [p \in 1..Len(LoadedPlugins) |-> {}]
    /\ sites = {}
    /\ adm = [a \in AdminRequests |-> IdleAdmin]

NextOf(R) ==
    \E r \in R :
        \/ \E d \in DeviceIds, cap \in Capabilities, o \in ReadOutcomes : Construct(r, d, cap, o)
        \/ \E h \in Headers : Enter(r, h)
        \/ \E o \in ReadOutcomes : Get(r, o)
        \/ \E p \in Payloads : RemoteReturn(r, p)
        \/ \E msg \in RpcErrors : RemoteRaise(r, msg)
        \/ \E o \in ReadOutcomes : Exit(r, o)
        \/ Finish(r)

Next == NextOf({"q1"})

Spec == Init /\ [][Next]_vars

\* ------------------------------------------- requests served in parallel
\* app.run() serves each request in a thread of its own: the steps of two
\* requests interleave
InitConc ==
    /\ store \in [DeviceIds -> UNION {RowsFor(d) : d \in DeviceIds}]
    /\ \A d \in DeviceIds :
            store[d] \in {SecretRow(HostOf[d], "juniper", GoodSecret, Str(B64("S"))),
                          TokenRow(HostOf[d], "cisco")}
    /\ master = Str(Raw("M"))
    /\ plugins = LoadedPlugins
    /\ req = [r \in Requests |-> IdleRequest]
    /\ entropy = 0
    /\ vault = << >>
    /\ opened = NoOpened
    /\ inflight = [p \in 1..Len(LoadedPlugins) |-> {}]
    /\ sites = {}
    /\ adm = [a \in AdminRequests |-> IdleAdmin]

NextConc ==
    \/ NextOf(Requests)
    \/ \E r \in Requests : ConnectionClosed(r)

SpecConc == InitConc /\ [][NextConc]_vars

\* ------------------------------------------------- the serving thread runs
\* the thread that serves a request is scheduled until it has answered; the
\* store and the plugin endpoint answer when they will
SpecLive ==
    /\ Init
    /\ [][Next]_vars
    /\ WF_vars(\E h \in Headers : Enter("q1", h))
    /\ WF_vars(\E o \in ReadOutcomes : Get("q1", o))
    /\ WF_vars(\E o \in ReadOutcomes : Exit("q1", o))
    /\ WF_vars(Finish("q1"))

\* ------------------------------------------------- the devices table moves
\* the rows written to the devices table. SiteDevices.post and patch stop at
\* site_exists, so rows are written to the table itself; its columns
\* (create-devices.py) take any auth_type and leave the credentials nullable
WrittenRows(d) ==
    { SecretRow(HostOf[d], "juniper", GoodSecret, Str(B64("S"))),
      TokenRow(HostOf[d], "cisco"),
      DeviceRow(HostOf[d], "cisco", "token", PyNone, PyNone, PyNone, Str(Raw("xyz789"))),
      DeviceRow(HostOf[d], "juniper", "key", PyNone, PyNone, PyNone, PyNone) }

\* an INSERT or UPDATE of a device row made on the table
DirectWrite(d, row) ==
    /\ store[d] # row
    /\ store' = [store EXCEPT ![d] = row]
    /\ UNCHANGED <<master, plugins, req, entropy, vault, opened, inflight, sites, adm>>

\* the JSON bodies of POST and PATCH /sites/:site_id, by the fields they hold
DeviceBodies ==
    { {"hostname"},
      {"hostname", "vendor", "auth_type", "type", "token"},
      {"device_id", "auth_type", "token"} }

\* self.site_exists(self.site_id): site_exists is defined without self, the
\* bound call passes two arguments to a function of one
site_exists == Raise("TypeError")

\* SiteDevices.post
DevicePost(a, body) ==
    /\ adm[a].pc = "idle"
    /\ adm' = [adm EXCEPT ![a] =
            IF ~({"hostname", "vendor", "auth_type", "type"} \subseteq body)
            THEN [@ EXCEPT !.pc = "done", !.op = "device.post", !.body = body,
                           !.code = HTTP_BADREQUEST, !.error = "Bad parameters"]
            ELSE [@ EXCEPT !.pc = "raised", !.op = "device.post", !.body = body,
                           !.exc = site_exists.exc]]
    /\ UNCHANGED <<store, master, plugins, req, entropy, vault, opened, inflight, sites>>

\* SiteDevices.patch
DevicePatch(a, body) ==
    /\ adm[a].pc = "idle"
    /\ adm' = [adm EXCEPT ![a] =
            IF "device_id" \notin body
            THEN [@ EXCEPT !.pc = "done", !.op = "device.patch", !.body = body,
                           !.code = HTTP_BADREQUEST, !.error = "Bad parameters"]
            ELSE [@ EXCEPT !.pc = "raised", !.op = "device.patch", !.body = body,
                           !.exc = site_exists.exc]]
    /\ UNCHANGED <<store, master, plugins, req, entropy, vault, opened, inflight, sites>>

\* the management request is answered
AdminFinish(a) ==
    /\ adm[a].pc \in {"done", "raised"}
    /\ adm' = [adm EXCEPT ![a] = IdleAdmin]
    /\ UNCHANGED <<store, master, plugins, req, entropy, vault, opened, inflight, sites>>

InitStore ==
    /\ store = [d \in DeviceIds |->
                    IF d = "D1" THEN SecretRow(HostOf[d], "juniper", GoodSecret, Str(B64("S")))
                    ELSE TokenRow(HostOf[d], "cisco")]
    /\ master = Str(Raw("M"))
    /\ plugins = LoadedPlugins
    /\ req = [r \in Requests |-> IdleRequest]
    /\ entropy = 0
    /\ vault = << >>
    /\ opened = NoOpened
    /\ inflight = [p \in 1..Len(LoadedPlugins) |-> {}]
    /\ sites = {}
    /\ adm = [a \in AdminRequests |-> IdleAdmin]

NextStore ==
    \/ Next
    \/ \E d \in DeviceIds : \E row \in WrittenRows(d) : DirectWrite(d, row)
    \/ \E body \in DeviceBodies : DevicePost("a1", body)
    \/ \E body \in DeviceBodies : DevicePatch("a1", body)
    \/ AdminFinish("a1")

SpecStore == InitStore /\ [][NextStore]_vars

\* ---------------------------------------------------------- the sites table
SiteNames == {"HQ", "Lab"}

\* Sites.post, first half: read the sites table by name; a row makes the
\* handler answer 409, None and False (the read failed) let it go on to
\* uuid.uuid4(), which draws from os.urandom
SitesPostRead(a, name, outcome) ==
    /\ adm[a].pc = "idle"
    /\ entropy < MaxPosts
    /\ LET output == outcome = "ok" /\ \E row \in sites : row.name = name
       IN  /\ adm' = [adm EXCEPT ![a] =
                IF output
                THEN [@ EXCEPT !.pc = "done", !.op = "sites.post", !.name = name,
                               !.code = HTTP_CONFLICT,
                               !.error = "Site name already exists"]
                ELSE [@ EXCEPT !.pc = "adding", !.op = "sites.post", !.name = name,
                               !.id = ToString(entropy)]]
           /\ entropy' = IF output THEN entropy ELSE entropy + 1
    /\ UNCHANGED <<store, master, plugins, req, vault, opened, inflight, sites>>

\* Sites.post, second half: SqlServer.add of the row (id, name)
SitesPostAdd(a, outcome) ==
    /\ adm[a].pc = "adding"
    /\ sites' = IF outcome = "ok"
                THEN sites \cup {[id |-> adm[a].id, name |-> adm[a].name]}
                ELSE sites
    /\ adm' = [adm EXCEPT ![a] =
            IF outcome = "ok"
            THEN [@ EXCEPT !.pc = "done", !.code = HTTP_CREATED]
            ELSE [@ EXCEPT !.pc = "done", !.code = HTTP_BADREQUEST, !.error = "SQL error"]]
    /\ UNCHANGED <<store, master, plugins, req, entropy, vault, opened, inflight>>

NextSites ==
    \E a \in AdminRequests :
        \/ \E name \in SiteNames, o \in ReadOutcomes : SitesPostRead(a, name, o)
        \/ \E o \in ReadOutcomes : SitesPostAdd(a, o)
        \/ AdminFinish(a)

SpecSites == InitStore /\ [][NextSites]_vars

\* -------------------------------------------------- the codec at work
\* the passwords given to CryptoSecret.encrypt
Plaintexts == {"Sw1tch!", "hunter2"}

\* the entries of the vault whose encrypt call returned
Sealed == {i \in 1..Len(vault) : vault[i].res.ok}

\* the ciphertext as encrypt returns it, and as text (encrypted[0].decode(),
\* the form security/encrypt_password.py prints and the table stores)
AsText(v) == decode(v).v

\* CryptoSecret().encrypt(password): the salt is drawn first, the IV when
\* the key could be built
EncryptCall(x) ==
    /\ Len(vault) < MaxVault
    /\ LET res == encrypt(master, Str(Raw(x)), entropy)
       IN  /\ vault' = Append(vault, [pt |-> Str(Raw(x)), master |-> master, res |-> res])
           /\ entropy' = IF res.ok THEN entropy + 2 ELSE entropy + 1
    /\ UNCHANGED <<store, master, plugins, req, opened, inflight, sites, adm>>

\* the secrets and salts a caller can pass to decrypt
SecretInputs ==
    {vault[i].res.v : i \in Sealed} \cup {AsText(vault[i].res.v) : i \in Sealed}
        \cup {Str(Raw("corrupted"))}

SaltInputs == {vault[i].res.salt : i \in Sealed} \cup {Bytes(Raw("S2"))}

\* CryptoSecret().decrypt(secret, salt)
DecryptCall(secret, salt) ==
    /\ opened' = [secret |-> secret, salt |-> salt, master |-> master,
                  res |-> decrypt(master, secret, salt)]
    /\ UNCHANGED <<store, master, plugins, req, entropy, vault, inflight, sites, adm>>

\* CryptoSecret.__init__ reads api_master_pw at each construction: the
\* environment of a later run may hold another value
SetMaster(m) ==
    /\ m # master
    /\ master' = m
    /\ UNCHANGED <<store, plugins, req, entropy, vault, opened, inflight, sites, adm>>

InitCodec ==
    /\ store = [d \in DeviceIds |-> NoRow]
    /\ master \in Masters
    /\ plugins = LoadedPlugins
    /\ req = [r \in Requests |-> IdleRequest]
    /\ entropy = 0
    /\ vault = << >>
    /\ opened = NoOpened
    /\ inflight = [p \in 1..Len(LoadedPlugins) |-> {}]
    /\ sites = {}
    /\ adm = [a \in AdminRequests |-> IdleAdmin]

NextCodec ==
    \/ \E x \in Plaintexts : EncryptCall(x)
    \/ \E secret \in SecretInputs, salt \in SaltInputs : DecryptCall(secret, salt)
    \/ \E m \in Masters : SetMaster(m)

SpecCodec == InitCodec /\ [][NextCodec]_vars

\* ------------------------------------------------- what the caller gets
\* the outcome of an Invoke as its caller sees it: the five error kinds of
\* the specification have these and only these forms in the code
ResultKind(q) ==
    IF q.pc = "raised" THEN "Exception"
    ELSE IF q.response.t = "payload" THEN "Success"
    ELSE IF q.response.t = "None" THEN "Empty"
    ELSE IF q.response.status = "error" /\ q.response.error = "Connection Refused"
         THEN "ConnectionRefused"
    ELSE "PluginError"

Returned(q) == q.pc \in {"done", "raised"}

\* the stored ciphertext of a secret row fails authenticated decryption
DecryptFails(row) ==
    /\ row.auth_type = "secret"
    /\ encode(row.salt).ok
    /\ urlsafe_b64decode(encode(row.salt).v).ok
    /\ decrypt(master, row.secret, urlsafe_b64decode(encode(row.salt).v).v) = Ok(PyFalse)

\* ----------------------------------------------------------------- claims
\* C1: an Invoke on a device id that has no row in the table returns the
\* DeviceNotFound result, and made no remote call and no codec call.
C1_UnknownDeviceNotFound ==
    \A r \in Requests :
        (Returned(req[r]) /\ store[req[r].dev] = NoRow)
            => /\ ResultKind(req[r]) = "DeviceNotFound"
               /\ req[r].ncalls = 0
               /\ req[r].codec = << >>

\* C2: an Invoke that returned, on a device whose vendor matches no loaded
\* plugin, returned the NoPluginForVendor result and made no remote call.
C2_UnregisteredVendorNoPlugin ==
    \A r \in Requests :
        (/\ req[r].pc = "done"
         /\ store[req[r].dev] # NoRow
         /\ FindPlugin(store[req[r].dev].vendor) = 0)
            => /\ ResultKind(req[r]) = "NoPluginForVendor"
               /\ req[r].ncalls = 0

\* C3: for a secret device of a registered vendor whose ciphertext fails
\* authenticated decryption, the Invoke never sends the remote call and
\* returns DecryptFailed.
C3_CorruptSecretDecryptFailed ==
    \A r \in Requests :
        (/\ req[r].pc \in {"calling", "done"}
         /\ store[req[r].dev] # NoRow
         /\ FindPlugin(store[req[r].dev].vendor) # 0
         /\ DecryptFails(store[req[r].dev]))
            => /\ req[r].pc # "calling"
               /\ req[r].ncalls = 0
               /\ ResultKind(req[r]) = "DecryptFailed"

\* C4: no exception leaves the dispatch path: every Invoke ends with a
\* returned result.
C4_NoExceptionEscapes ==
    \A r \in Requests : req[r].pc # "raised"

\* C8: an Invoke whose device authenticates by token made no codec call:
\* neither CryptoSecret.decrypt nor build_key ran, whatever the capability
\* and the outcome of the remote call.
C8_TokenNoCodec ==
    \A r \in Requests :
        (/\ req[r].pc \in {"calling", "done", "raised"}
         /\ store[req[r].dev] # NoRow
         /\ store[req[r].dev].auth_type = "token")
            => req[r].codec = << >>

\* a token device was dispatched and its remote call has returned or raised
C8_Witness ==
    \E r \in Requests :
        /\ req[r].pc = "done"
        /\ req[r].auth = "token"
        /\ req[r].remote.kind \in {"payload", "error"}

\* C9: every remote call carries the arguments of the device's auth type:
\* (host, username, decrypted secret) for secret, (host, token) for token.
C9_CallingConvention ==
    \A r \in Requests :
        req[r].pc = "calling" =>
            LET row == store[req[r].dev]
                args == req[r].call.args
            IN  /\ row.auth_type = "secret" =>
                    /\ Len(args) = 3
                    /\ args[1] = Str(Raw(row.name))
                    /\ args[2] = row.username
                    /\ args[3].t = "str"
                /\ row.auth_type = "token" =>
                    args = <<Str(Raw(row.name)), row.token>>

\* C10: when the remote call returned a payload, the response of the Invoke
\* is that payload, unchanged.
C10_PayloadUnchanged ==
    \A r \in Requests :
        (req[r].pc = "done" /\ req[r].remote.kind = "payload")
            => req[r].response = Payload(req[r].remote.v)

\* remote calls of a secret device and of a token device returned a payload
C10_Witness ==
    \E r \in Requests :
        /\ req[r].pc = "done"
        /\ req[r].remote.kind = "payload"
        /\ req[r].auth = "secret"
        /\ req[r].cap = "interfaces"

\* C5: under one master passphrase, decrypt applied to the ciphertext and
\* the salt that encrypt(x) returned gives back x.
C5_RoundTrip ==
    \A i \in Sealed :
        (/\ opened.secret = vault[i].res.v
         /\ opened.salt = vault[i].res.salt
         /\ opened.master = vault[i].master)
            => opened.res = Ok(vault[i].pt)

\* C6: no two encrypt calls return the same salt, nor the same ciphertext;
\* in particular not two calls on the same plaintext.
C6_FreshSalt ==
    \A i, j \in Sealed :
        i # j => /\ vault[i].res.salt # vault[j].res.salt
                 /\ vault[i].res.v # vault[j].res.v

\* two encrypt calls on the same plaintext under the same passphrase returned
C6_Witness ==
    \E i, j \in Sealed :
        i # j /\ vault[i].pt = vault[j].pt /\ vault[i].master = vault[j].master

\* the decrypt call was given bytes as salt and had a passphrase
Keyed == opened.salt.t = "bytes" /\ opened.master.t = "str"

RoundTripAsText ==
    \A i \in Sealed :
        (/\ opened.secret = AsText(vault[i].res.v)
         /\ opened.salt = vault[i].res.salt
         /\ opened.master = vault[i].master)
            => opened.res = Ok(vault[i].pt)


\* a remote call of request r raised
Failed(q) == q.pc = "done" /\ q.remote.kind = "error"

\* C11: whenever the transport reports that the plugin endpoint refused the
\* connection or is unreachable, the Invoke returns ConnectionRefused.
C11_UnreachableIsRefused ==
    \A r \in Requests :
        (Failed(req[r]) /\ Unreachable(req[r].remote.v))
            => ResultKind(req[r]) = "ConnectionRefused"

C13_FirstExactMatch ==
    \A r \in Requests :
        /\ req[r].pc = "calling" =>
            /\ plugins[req[r].call.plugin].vendor = store[req[r].dev].vendor
            /\ \A j \in 1..(req[r].call.plugin - 1) :
                    plugins[j].vendor # store[req[r].dev].vendor
        /\ (/\ req[r].pc \in {"calling", "done"}
            /\ \A i \in 1..Len(plugins) : plugins[i].vendor # store[req[r].dev].vendor)
                => req[r].ncalls = 0

\* a device of a vendor with two loaded plugins was dispatched
C13_Witness ==
    \E r \in Requests :
        /\ req[r].pc = "calling"
        /\ Cardinality({i \in 1..Len(plugins) :
                            plugins[i].vendor = store[req[r].dev].vendor}) = 2


\* C14: no step of the program changes the loaded plugin list: no entry is
\* added, removed, reordered or modified.
C14_RegistryFrozen == [][plugins' = plugins]_vars

\* an Invoke was dispatched to a plugin and returned, the list is as loaded
C14_Witness ==
    /\ plugins = LoadedPlugins
    /\ \E r \in Requests : req[r].pc = "done" /\ req[r].ncalls = 1

\* the number of CryptoSecret.decrypt calls of an Invoke
Decrypts(q) == Cardinality({i \in 1..Len(q.codec) : q.codec[i] = "decrypt"})

\* C15: an Invoke sends at most one remote call and decrypts at most once;
\* an Invoke whose remote call failed has sent exactly that one call.
C15_SinglePass ==
    \A r \in Requests :
        /\ req[r].ncalls <= 1
        /\ Decrypts(req[r]) <= 1
        /\ Failed(req[r]) => req[r].ncalls = 1

\* the remote call of a secret device failed and the Invoke returned
C15_Witness ==
    \E r \in Requests :
        /\ Failed(req[r])
        /\ Decrypts(req[r]) = 1
        /\ req[r].cap = "lldp"


\* the requests whose remote call is in progress on plugin p
Calling(p) == {r \in Requests : req[r].pc = "calling" /\ req[r].call.plugin = p}

\* C16: at no time are two remote calls in progress on the same plugin
\* handle.
C16_HandleSerialised ==
    \A p \in 1..Len(plugins) : Cardinality(Calling(p)) <= 1

\* C17: when the remote call of an Invoke for device B fails, the remote
\* call in progress of an Invoke for another device A keeps its connection:
\* A's result stays A's own remote outcome.
C17_Isolation ==
    [][\A a, b \in Requests :
        (/\ req[a].dev # req[b].dev
         /\ req[a].pc = "calling"
         /\ a \in inflight[req[a].call.plugin]
         /\ req[b].pc = "calling"
         /\ Failed(req'[b]))
            => a \in inflight'[req[a].call.plugin]]_vars

\* C18: every Invoke that has started eventually returns to its caller.
C18_EventuallyReturns ==
    \A r \in Requests : (req[r].pc \in {"constructed", "entered", "calling"}) ~> Returned(req[r])


\* the credential sent with the remote call of an Invoke: the last argument
Credential(q) == q.call.args[Len(q.call.args)]

\* the values kept in attributes of the loaded Plugin objects
Held == UNION {{plugins[i].held[k] : k \in 1..Len(plugins[i].held)} : i \in 1..Len(plugins)}

\* the credential columns of a row of the devices table
Columns(row) == {row.username, row.secret, row.salt, row.token}

\* an Invoke that sent its remote call has returned
ReturnedFromCall(q) == q.pc = "done" /\ q.ncalls = 1

\* C20 as stated: after an Invoke returns, neither the Plugin objects nor
\* the store hold the decrypted secret or the token used for the call.
C20_NothingRetained ==
    \A r \in Requests :
        ReturnedFromCall(req[r]) =>
            /\ Credential(req[r]) \notin Held
            /\ \A d \in DeviceIds : Credential(req[r]) \notin Columns(store[d])

\* C20 amended: after an Invoke returns, no Plugin object holds the
\* credential used for the call and the store does not hold a decrypted
\* secret; a token is held by the store, in the token column only, which is
\* where the Invoke read it.
C20_NothingRetainedByCall ==
    \A r \in Requests :
        ReturnedFromCall(req[r]) =>
            /\ Credential(req[r]) \notin Held
            /\ req[r].auth = "secret" =>
                \A d \in DeviceIds : Credential(req[r]) \notin Columns(store[d])
            /\ req[r].auth = "token" =>
                /\ store[req[r].dev].token = Credential(req[r])
                /\ \A d \in DeviceIds :
                    Credential(req[r]) \notin {store[d].username, store[d].secret, store[d].salt}

\* a token Invoke got its payload and returned
C20_Witness ==
    \E r \in Requests :
        /\ ReturnedFromCall(req[r])
        /\ req[r].auth = "token"
        /\ req[r].remote.kind = "payload"


\* C25: CryptoSecret.decrypt never raises: every call returns the decrypted
\* password or False.
C25_DecryptNeverRaises ==
    opened # NoOpened => opened.res.ok


\* C30: no two rows of the sites table have the same name, and a POST for a
\* name that is in the table answers 409 'Site name already exists'.
C30_UniqueSiteNames ==
    /\ \A x, y \in sites : x.name = y.name => x = y
    /\ \A a \in AdminRequests :
        (adm[a].pc = "done" /\ adm[a].code = HTTP_CREATED) =>
            \A x \in sites : x.name = adm[a].name => x.id = adm[a].id


\* C21: the remote call that an Invoke sends carries the credentials that
\* the store holds when the Invoke resolves them, whatever earlier Invokes
\* read.
C21_FreshCredentials ==
    [][\A r \in Requests :
        (req[r].pc = "entered" /\ req'[r].pc = "calling")
            => req'[r].call.args = CallArgs(authenticate(req[r].dev, "ok"))]_vars

\* a remote call carries the token written to the row of D2 after the start
C21_Witness ==
    \E r \in Requests :
        /\ req[r].pc = "calling"
        /\ req[r].dev = "D2"
        /\ Credential(req[r]) = Str(Raw("xyz789"))

\* exactly one credential form is populated and it is that of auth_type
WellFormed(row) ==
    \/ /\ row.auth_type = "secret"
       /\ PyNone \notin {row.username, row.secret, row.salt}
       /\ row.token = PyNone
    \/ /\ row.auth_type = "token"
       /\ row.token # PyNone
       /\ {row.username, row.secret, row.salt} = {PyNone}

C23_InvokeReadsOnly ==
    [][req' # req => (store' = store /\ plugins' = plugins)]_vars

\* an Invoke read a row that was written after the start, and returned
C23_Witness ==
    \E r \in Requests :
        /\ req[r].pc = "done"
        /\ req[r].ncalls = 1
        /\ store[req[r].dev] = DeviceRow(HostOf[req[r].dev], "cisco", "token",
                                         PyNone, PyNone, PyNone, Str(Raw("xyz789")))

\* C24: credentials are resolved only once a plugin was found, and the
\* remote call is sent only once they are resolved; an Invoke on a device
\* of an unregistered vendor whose ciphertext is corrupted returns
\* NoPluginForVendor without codec call and without remote call.
C24_VendorLookupFirst ==
    \A r \in Requests :
        /\ req[r].codec # << >> => FindPlugin(req[r].vendor) # 0
        /\ req[r].ncalls > 0 => req[r].auth # ""
        /\ (/\ req[r].pc = "done"
            /\ FindPlugin(store[req[r].dev].vendor) = 0
            /\ DecryptFails(store[req[r].dev]))
                => /\ ResultKind(req[r]) = "NoPluginForVendor"
                   /\ req[r].codec = << >>
                   /\ req[r].ncalls = 0

\* C26: the handler runs only for a request whose Authorization header was
\* present and accepted; every other request gets code 401 and error
\* 'Failed Authentication', and the credentials are checked only when the
\* header is present.
C26_HandlerOnlyIfAuthenticated ==
    \A r \in Requests :
        /\ req[r].pc \in {"entered", "calling", "done"} => req[r].hdr = "good"
        /\ req[r].hdr = "absent" => req[r].authchecks = 0
        /\ req[r].hdr \in {"absent", "bad", "malformed"} =>
            /\ req[r].pc # "raised"
            /\ req[r].code = 401
            /\ req[r].error = "Failed Authentication"
            /\ req[r].ncalls = 0

\* the status the client receives: Flask answers 500 when the view function
\* raises, which it does after an exception in the constructor, in __enter__
\* or (dropped by __exit__, the view then reads unbound locals) in the handler
HttpCode(q) == IF q.pc = "raised" THEN 500 ELSE q.code

\* the request went into the with statement and has its answer
Answered(q) == q.pc \in {"done", "raised"} /\ q.entered # "yes" /\ q.hdr # ""

\* C27: a request that went into the ApiCall context is logged exactly once,
\* with its final return code and error.
C27_LoggedOnce ==
    \A r \in Requests :
        Answered(req[r]) =>
            /\ Len(req[r].logged) = 1
            /\ req[r].logged[1].code = HttpCode(req[r])
            /\ req[r].logged[1].error = req[r].error

C29_GetAnswers200 ==
    \A r \in Requests : req[r].pc = "done" => req[r].code = HTTP_OK

\* the handlers completed without a plugin
C29_Witness ==
    \E r \in Requests :
        /\ req[r].pc = "done"
        /\ req[r].response = NoResponse
        /\ req[r].cap = "vlans"

====
